---- MODULE Spec2Model ----
(***************************************************************************)
(* Model of CElasticityOutput (SU2_CFD/src/output/output_elasticity.cpp):  *)
(* the constructor, the history and volume field catalogs, the history    *)
(* and volume data loaders and the screen write gate.                      *)
(*                                                                         *)
(* The values stored in a field are abstracted away: a load is the         *)
(* sequence of field names passed to SetHistoryOutputValue /               *)
(* SetVolumeOutputValue, in call order; a catalog is the sequence of       *)
(* field names passed to AddHistoryOutput / AddVolumeOutput, in call       *)
(* order.                                                                  *)
(***************************************************************************)
EXTENDS Integers, Sequences, FiniteSets

(* ---- bounds of the model ---- *)
MaxIntIter == 5
MaxExtIter == 81
MaxFreq == 2
nPoint == 1

(* ---- program constants ---- *)
HeaderFactor == 40

SMALL_DEFORMATIONS == "SMALL_DEFORMATIONS"
LARGE_DEFORMATIONS == "LARGE_DEFORMATIONS"
UNRECOGNIZED == "UNRECOGNIZED"
STATIC == "STATIC"
DYNAMIC == "DYNAMIC"

VARIABLES
  config,              \* CConfig values read by the class
  linear_analysis,     \* members set by the constructor
  nonlinear_analysis,
  dynamic,
  nDim,
  nVar_FEM,
  multizone,
  HistoryOutput_List,  \* history catalog, in registration order
  VolumeOutput_List,   \* volume catalog, in registration order
  historyCalls,        \* fields set by the last LoadHistoryData
  volumeCalls,         \* per point, fields set by the last LoadVolumeData
  ret                  \* last write-gate call and its return value

vars == << config, linear_analysis, nonlinear_analysis, dynamic, nDim,
           nVar_FEM, multizone, HistoryOutput_List, VolumeOutput_List,
           historyCalls, volumeCalls, ret >>

members == << linear_analysis, nonlinear_analysis, dynamic, nDim,
              nVar_FEM, multizone >>

Range(s) == { s[i] : i \in DOMAIN s }

Count(s, f) == Cardinality({ i \in DOMAIN s : s[i] = f })

Points == 0 .. (nPoint - 1)

(* ---- configuration ---- *)
ConfigsOf(geoms) ==
  [ Geometric_Conditions : geoms,
    Time_Domain          : BOOLEAN,
    Dynamic_Analysis     : {STATIC, DYNAMIC},
    GeometryDim          : {2, 3},
    Multizone_Problem    : BOOLEAN,
    Wrt_ZoneConv         : BOOLEAN,
    Wrt_Con_Freq         : 1 .. MaxFreq,
    IntIter              : {0},
    ExtIter              : {0} ]

(* value of an uninitialized unsigned short member, abstracted *)
Indeterminate == 0 .. 3

(* ---- constructor, lines 40-50 ---- *)
Ctor_linear(c) == c.Geometric_Conditions = SMALL_DEFORMATIONS

Ctor_nonlinear(c) == c.Geometric_Conditions = LARGE_DEFORMATIONS

Ctor_dynamic(c) == c.Time_Domain \/ (c.Dynamic_Analysis = DYNAMIC)

Ctor_nVar_FEM(c) ==
  IF Ctor_nonlinear(c) THEN {3}
  ELSE IF Ctor_linear(c) THEN {c.GeometryDim}
  ELSE Indeterminate

Constructed(geoms) ==
  /\ config \in ConfigsOf(geoms)
  /\ linear_analysis = Ctor_linear(config)
  /\ nonlinear_analysis = Ctor_nonlinear(config)
  /\ dynamic = Ctor_dynamic(config)
  /\ nDim = config.GeometryDim
  /\ nVar_FEM \in Ctor_nVar_FEM(config)
  /\ multizone = config.Multizone_Problem
  /\ HistoryOutput_List = << >>
  /\ VolumeOutput_List = << >>
  /\ historyCalls = << >>
  /\ volumeCalls = [ p \in Points |-> << >> ]
  /\ ret = [ fn |-> "none", val |-> FALSE ]

(* ---- SetHistoryOutputFields, lines 156-185 ---- *)
HistoryOutputFields ==
  << "TIME_ITER", "OUTER_ITER", "INNER_ITER",
     "PHYS_TIME", "LINSOL_ITER",
     "RMS_UTOL", "RMS_RTOL", "RMS_ETOL",
     "RMS_DISP_X", "RMS_DISP_Y", "RMS_DISP_Z",
     "BGS_DISP_X", "BGS_DISP_Y", "BGS_DISP_Z",
     "VMS", "LOAD_INCREMENT", "LOAD_RAMP" >>

(* ---- SetVolumeOutputFields, lines 223-255 ---- *)
(* variant: the nDim test in front of COORD-Z is lost *)
VolumeOutputFields_CoordZUngated(nd) ==
  << "COORD-X", "COORD-Y", "COORD-Z" >>
  \o << "DISPLACEMENT-X", "DISPLACEMENT-Y" >>
  \o (IF nd = 3 THEN << "DISPLACEMENT-Z" >> ELSE << >>)
  \o << "VELOCITY-X", "VELOCITY-Y" >>
  \o (IF nd = 3 THEN << "VELOCITY-Z" >> ELSE << >>)
  \o << "ACCELERATION-X", "ACCELERATION-Y" >>
  \o (IF nd = 3 THEN << "ACCELERATION-Z" >> ELSE << >>)
  \o << "STRESS-XX", "STRESS-YY", "STRESS-XY" >>
  \o (IF nd = 3 THEN << "STRESS-ZZ", "STRESS-XZ", "STRESS-YZ" >> ELSE << >>)
  \o << "VON_MISES_STRESS" >>

VolumeOutputFields(nd) ==
  << "COORD-X", "COORD-Y" >>
  \o (IF nd = 3 THEN << "COORD-Z" >> ELSE << >>)
  \o << "DISPLACEMENT-X", "DISPLACEMENT-Y" >>
  \o (IF nd = 3 THEN << "DISPLACEMENT-Z" >> ELSE << >>)
  \o << "VELOCITY-X", "VELOCITY-Y" >>
  \o (IF nd = 3 THEN << "VELOCITY-Z" >> ELSE << >>)
  \o << "ACCELERATION-X", "ACCELERATION-Y" >>
  \o (IF nd = 3 THEN << "ACCELERATION-Z" >> ELSE << >>)
  \o << "STRESS-XX", "STRESS-YY", "STRESS-XY" >>
  \o (IF nd = 3 THEN << "STRESS-ZZ", "STRESS-XZ", "STRESS-YZ" >> ELSE << >>)
  \o << "VON_MISES_STRESS" >>

(* ---- LoadHistoryData, lines 117-154 ---- *)
(* variant: the nDim test in front of RMS_ETOL is lost *)
LoadHistoryCalls_EtolUngated(lin, nonlin, nd, mz) ==
  << "TIME_ITER", "INNER_ITER", "OUTER_ITER" >>
  \o (IF lin
        THEN << "RMS_DISP_X", "RMS_DISP_Y" >>
             \o (IF nd = 3 THEN << "RMS_DISP_Z" >> ELSE << >>)
      ELSE IF nonlin
        THEN << "RMS_UTOL", "RMS_RTOL", "RMS_ETOL" >>
      ELSE << >>)
  \o (IF mz
        THEN << "BGS_DISP_X", "BGS_DISP_Y" >>
             \o (IF nd = 3 THEN << "BGS_DISP_Z" >> ELSE << >>)
      ELSE << >>)
  \o << "VMS", "LOAD_INCREMENT", "LOAD_RAMP" >>

(* variant: the nDim test in front of BGS_DISP_Z is lost *)
LoadHistoryCalls_BgsZUngated(lin, nonlin, nd, mz) ==
  << "TIME_ITER", "INNER_ITER", "OUTER_ITER" >>
  \o (IF lin
        THEN << "RMS_DISP_X", "RMS_DISP_Y" >>
             \o (IF nd = 3 THEN << "RMS_DISP_Z" >> ELSE << >>)
      ELSE IF nonlin
        THEN << "RMS_UTOL", "RMS_RTOL" >>
             \o (IF nd = 3 THEN << "RMS_ETOL" >> ELSE << >>)
      ELSE << >>)
  \o (IF mz
        THEN << "BGS_DISP_X", "BGS_DISP_Y", "BGS_DISP_Z" >>
      ELSE << >>)
  \o << "VMS", "LOAD_INCREMENT", "LOAD_RAMP" >>

LoadHistoryCalls(lin, nonlin, nd, mz) ==
  << "TIME_ITER", "INNER_ITER", "OUTER_ITER" >>
  \o (IF lin
        THEN << "RMS_DISP_X", "RMS_DISP_Y" >>
             \o (IF nd = 3 THEN << "RMS_DISP_Z" >> ELSE << >>)
      ELSE IF nonlin
        THEN << "RMS_UTOL", "RMS_RTOL" >>
             \o (IF nd = 3 THEN << "RMS_ETOL" >> ELSE << >>)
      ELSE << >>)
  \o (IF mz
        THEN << "BGS_DISP_X", "BGS_DISP_Y" >>
             \o (IF nd = 3 THEN << "BGS_DISP_Z" >> ELSE << >>)
      ELSE << >>)
  \o << "VMS", "LOAD_INCREMENT", "LOAD_RAMP" >>

(* ---- LoadVolumeData, lines 187-221 ---- *)
(* variant: the out-of-plane stresses are set without the nDim test *)
LoadVolumeCalls_StressUngated(nd, dyn) ==
  << "COORD-X", "COORD-Y" >>
  \o (IF nd = 3 THEN << "COORD-Z" >> ELSE << >>)
  \o << "DISPLACEMENT-X", "DISPLACEMENT-Y" >>
  \o (IF nd = 3 THEN << "DISPLACEMENT-Z" >> ELSE << >>)
  \o (IF dyn
        THEN << "VELOCITY-X", "VELOCITY-Y" >>
             \o (IF nd = 3 THEN << "VELOCITY-Z" >> ELSE << >>)
             \o << "ACCELERATION-X", "ACCELERATION-Y" >>
             \o (IF nd = 3 THEN << "ACCELERATION-Z" >> ELSE << >>)
      ELSE << >>)
  \o << "STRESS-XX", "STRESS-YY", "STRESS-XY",
        "STRESS-ZZ", "STRESS-XZ", "STRESS-YZ" >>
  \o << "VON_MISES_STRESS" >>

LoadVolumeCalls(nd, dyn) ==
  << "COORD-X", "COORD-Y" >>
  \o (IF nd = 3 THEN << "COORD-Z" >> ELSE << >>)
  \o << "DISPLACEMENT-X", "DISPLACEMENT-Y" >>
  \o (IF nd = 3 THEN << "DISPLACEMENT-Z" >> ELSE << >>)
  \o (IF dyn
        THEN << "VELOCITY-X", "VELOCITY-Y" >>
             \o (IF nd = 3 THEN << "VELOCITY-Z" >> ELSE << >>)
             \o << "ACCELERATION-X", "ACCELERATION-Y" >>
             \o (IF nd = 3 THEN << "ACCELERATION-Z" >> ELSE << >>)
      ELSE << >>)
  \o << "STRESS-XX", "STRESS-YY", "STRESS-XY" >>
  \o (IF nd = 3 THEN << "STRESS-ZZ", "STRESS-XZ", "STRESS-YZ" >> ELSE << >>)
  \o << "VON_MISES_STRESS" >>

(* ---- WriteScreen_Header, lines 259-270 ---- *)
(* variant: the multizone opt-in test is lost *)
HeaderValue_NoZoneGate(nonlin, c) ==
  IF nonlin THEN c.IntIter = 0
  ELSE (c.ExtIter % (c.Wrt_Con_Freq * HeaderFactor)) = 0

(* variant: the nonlinear branch tests the external counter *)
HeaderValue_ExtIterZero(nonlin, c) ==
  LET write_header ==
        IF nonlin THEN c.ExtIter = 0
        ELSE (c.ExtIter % (c.Wrt_Con_Freq * HeaderFactor)) = 0
  IN  IF c.Multizone_Problem THEN write_header /\ c.Wrt_ZoneConv
      ELSE write_header

(* variant: the factor of the header cadence is lost *)
HeaderValue_NoFactor(nonlin, c) ==
  LET write_header ==
        IF nonlin THEN c.IntIter = 0
        ELSE (c.ExtIter % c.Wrt_Con_Freq) = 0
  IN  IF c.Multizone_Problem THEN write_header /\ c.Wrt_ZoneConv
      ELSE write_header

HeaderValue(nonlin, c) ==
  LET write_header ==
        IF nonlin THEN c.IntIter = 0
        ELSE (c.ExtIter % (c.Wrt_Con_Freq * HeaderFactor)) = 0
  IN  IF c.Multizone_Problem THEN write_header /\ c.Wrt_ZoneConv
      ELSE write_header

(* ---- WriteScreen_Output, lines 271-279 ---- *)
(* variant: the opt-in flag is applied without the multizone test *)
OutputValue_AlwaysGated(c) == c.Wrt_ZoneConv

OutputValue(c) ==
  LET write_output == TRUE
  IN  IF c.Multizone_Problem THEN write_output /\ c.Wrt_ZoneConv
      ELSE write_output

(* ---- actions ---- *)
SetHistoryOutputFields ==
  /\ HistoryOutput_List = << >>
  /\ HistoryOutput_List' = HistoryOutputFields
  /\ UNCHANGED << config, members, VolumeOutput_List, historyCalls,
                  volumeCalls, ret >>

SetVolumeOutputFields ==
  /\ VolumeOutput_List = << >>
  /\ VolumeOutput_List' = VolumeOutputFields(nDim)
  /\ UNCHANGED << config, members, HistoryOutput_List, historyCalls,
                  volumeCalls, ret >>

LoadHistoryData ==
  /\ HistoryOutput_List # << >>
  /\ historyCalls' =
       LoadHistoryCalls(linear_analysis, nonlinear_analysis, nDim, multizone)
  /\ UNCHANGED << config, members, HistoryOutput_List, VolumeOutput_List,
                  volumeCalls, ret >>

LoadVolumeData(iPoint) ==
  /\ VolumeOutput_List # << >>
  /\ volumeCalls' =
       [ volumeCalls EXCEPT ![iPoint] = LoadVolumeCalls(nDim, dynamic) ]
  /\ UNCHANGED << config, members, HistoryOutput_List, VolumeOutput_List,
                  historyCalls, ret >>

WriteScreen_Header ==
  /\ ret' = [ fn |-> "WriteScreen_Header",
              val |-> HeaderValue(nonlinear_analysis, config) ]
  /\ UNCHANGED << config, members, HistoryOutput_List, VolumeOutput_List,
                  historyCalls, volumeCalls >>

WriteScreen_Output ==
  /\ ret' = [ fn |-> "WriteScreen_Output", val |-> OutputValue(config) ]
  /\ UNCHANGED << config, members, HistoryOutput_List, VolumeOutput_List,
                  historyCalls, volumeCalls >>

(* The solver driver advances the counters that GetIntIter / GetExtIter    *)
(* return; the return value of the previous gate call is consumed.         *)
InnerIteration ==
  /\ HistoryOutput_List # << >>
  /\ VolumeOutput_List # << >>
  /\ config.IntIter < MaxIntIter
  /\ config' = [ config EXCEPT !.IntIter = @ + 1 ]
  /\ ret' = [ fn |-> "none", val |-> FALSE ]
  /\ UNCHANGED << members, HistoryOutput_List, VolumeOutput_List,
                  historyCalls, volumeCalls >>

OuterIteration ==
  /\ HistoryOutput_List # << >>
  /\ VolumeOutput_List # << >>
  /\ config.ExtIter < MaxExtIter
  /\ config' = [ config EXCEPT !.ExtIter = @ + 1, !.IntIter = 0 ]
  /\ ret' = [ fn |-> "none", val |-> FALSE ]
  /\ UNCHANGED << members, HistoryOutput_List, VolumeOutput_List,
                  historyCalls, volumeCalls >>

Init == Constructed({SMALL_DEFORMATIONS, LARGE_DEFORMATIONS})

InitAnyGeom ==
  Constructed({SMALL_DEFORMATIONS, LARGE_DEFORMATIONS, UNRECOGNIZED})

Next ==
  \/ SetHistoryOutputFields
  \/ SetVolumeOutputFields
  \/ LoadHistoryData
  \/ \E iPoint \in Points : LoadVolumeData(iPoint)
  \/ WriteScreen_Header
  \/ WriteScreen_Output
  \/ InnerIteration
  \/ OuterIteration

Spec == Init /\ [][Next]_vars

SpecAnyGeom == InitAnyGeom /\ [][Next]_vars

(***************************************************************************)
(* Properties                                                              *)
(***************************************************************************)
ZAxisFields ==
  { "COORD-Z", "DISPLACEMENT-Z", "VELOCITY-Z", "ACCELERATION-Z",
    "STRESS-ZZ", "STRESS-XZ", "STRESS-YZ", "RMS_DISP_Z", "BGS_DISP_Z" }

DynamicOnlyFields ==
  { "VELOCITY-X", "VELOCITY-Y", "VELOCITY-Z",
    "ACCELERATION-X", "ACCELERATION-Y", "ACCELERATION-Z" }

HeaderNotSuppressed == (~config.Multizone_Problem) \/ config.Wrt_ZoneConv

HistoryCatalog == Range(HistoryOutput_List)

VolumeCatalog == Range(VolumeOutput_List)

(* C1: in a multizone run without the write-zone-convergence opt-in, every *)
(* call of WriteScreen_Header and of WriteScreen_Output returns false,     *)
(* whatever the counters, the write frequency and the analysis mode.       *)
C1_MultizoneSuppressed ==
  (config.Multizone_Problem /\ ~config.Wrt_ZoneConv /\ ret.fn # "none")
    => (ret.val = FALSE)

C1_Witness ==
  /\ config.Multizone_Problem
  /\ ~config.Wrt_ZoneConv
  /\ nonlinear_analysis
  /\ config.IntIter = 0
  /\ ret.fn = "WriteScreen_Header"

(* C2: in a nonlinear run whose header is not suppressed by the multizone  *)
(* rule, WriteScreen_Header returns true exactly when the inner counter is *)
(* 0, whatever the external counter and the write frequency.               *)
C2_NonlinearHeaderAtInnerZero ==
  (nonlinear_analysis /\ HeaderNotSuppressed /\ ret.fn = "WriteScreen_Header")
    => (ret.val <=> (config.IntIter = 0))

C2_Witness ==
  /\ nonlinear_analysis
  /\ HeaderNotSuppressed
  /\ ret.fn = "WriteScreen_Header"
  /\ config.IntIter = MaxIntIter
  /\ config.ExtIter = 0
  /\ ret.val = FALSE

(* C3: in a linear run whose header is not suppressed by the multizone     *)
(* rule, WriteScreen_Header returns true exactly when the external counter *)
(* is a multiple of 40 times the write frequency, whatever the inner       *)
(* counter.                                                                *)
C3_LinearHeaderCadence ==
  (linear_analysis /\ HeaderNotSuppressed /\ ret.fn = "WriteScreen_Header")
    => (ret.val <=>
          \E k \in 0 .. config.ExtIter :
             config.ExtIter = k * (config.Wrt_Con_Freq * 40))

C3_Witness ==
  /\ linear_analysis
  /\ HeaderNotSuppressed
  /\ ret.fn = "WriteScreen_Header"
  /\ config.Wrt_Con_Freq = 2
  /\ config.ExtIter = 80
  /\ config.IntIter > 0
  /\ ret.val = TRUE

C5_StaticNoVelocityAcceleration ==
  (~dynamic) => (VolumeCatalog \cap DynamicOnlyFields = {})

C7_UnrecognizedGeometryRejected ==
  (config.Geometric_Conditions
     \notin { SMALL_DEFORMATIONS, LARGE_DEFORMATIONS })
    => /\ HistoryOutput_List = << >>
       /\ VolumeOutput_List = << >>
       /\ historyCalls = << >>
       /\ \A p \in Points : volumeCalls[p] = << >>

ApplicableHistoryFields ==
  { "TIME_ITER", "INNER_ITER", "OUTER_ITER",
    "VMS", "LOAD_INCREMENT", "LOAD_RAMP" }
  \cup (IF config.Geometric_Conditions = SMALL_DEFORMATIONS
          THEN { "RMS_DISP_X", "RMS_DISP_Y" }
               \cup (IF config.GeometryDim = 3 THEN { "RMS_DISP_Z" } ELSE {})
          ELSE {})
  \cup (IF config.Geometric_Conditions = LARGE_DEFORMATIONS
          THEN { "RMS_UTOL", "RMS_RTOL" }
               \cup (IF config.GeometryDim = 3 THEN { "RMS_ETOL" } ELSE {})
          ELSE {})
  \cup (IF config.Multizone_Problem
          THEN { "BGS_DISP_X", "BGS_DISP_Y" }
               \cup (IF config.GeometryDim = 3 THEN { "BGS_DISP_Z" } ELSE {})
          ELSE {})

C9_SingleZoneIgnoresOptIn ==
  (~config.Multizone_Problem)
    => LET other == [ config EXCEPT !.Wrt_ZoneConv = ~@ ]
       IN  /\ (ret.fn = "WriteScreen_Header")
                => (ret.val = HeaderValue(nonlinear_analysis, other))
           /\ (ret.fn = "WriteScreen_Output")
                => (ret.val = TRUE /\ OutputValue(other) = TRUE)

C9_Witness ==
  /\ ~config.Multizone_Problem
  /\ ~config.Wrt_ZoneConv
  /\ ret.fn = "WriteScreen_Output"
  /\ config.IntIter > 0
  /\ config.ExtIter > 0

(* C10: every field that LoadHistoryData sets is in the history catalog    *)
(* and every field that LoadVolumeData sets for a point is in the volume   *)
(* catalog.                                                                *)
C10_LoaderWithinCatalog ==
  /\ Range(historyCalls) \subseteq HistoryCatalog
  /\ \A p \in Points : Range(volumeCalls[p]) \subseteq VolumeCatalog

C10_Witness ==
  /\ dynamic
  /\ multizone
  /\ historyCalls # << >>
  /\ \A p \in Points : volumeCalls[p] # << >>

====
